---------------------------- MODULE Spec2Model ----------------------------
(***************************************************************************)
(* scenarios/similarity/11_exploring_hyperparameters.ipynb                 *)
(*                                                                         *)
(* The notebook sweeps hyperparameters of an image-similarity model: it    *)
(* sets the datasets and the parameter lists, defines the metric           *)
(* retrieval_rank, creates a ParameterSweeper, updates its parameters,     *)
(* runs the sweep (for each repetition, permutation and dataset: train,    *)
(* evaluate the metric, record a row), and post-processes the results      *)
(* table with clean_sweeper_df, df.mean(level=...), the plots and sb.glue. *)
(*                                                                         *)
(* Numbers that are floats in the notebook (ranks, means) are exact        *)
(* rationals here; hyperparameter values are the strings that label the    *)
(* permutation in the table index.  The duration column of the table is    *)
(* not modelled.                                                           *)
(***************************************************************************)
EXTENDS Integers, Sequences, FiniteSets, TLC

(***************************************************************************)
(* Bounds of the model.                                                    *)
(***************************************************************************)
\* comparative sets built per evaluation (the notebook asks for 1000)
MaxSets == 4
\* largest rank of the positive example (the notebook: 99 negatives + 1)
MaxRank == 3
\* seeds of the training outcome in the full-notebook specification
MaxSeed == 1
\* largest results table whose ranks are drawn freely (aggregation spec)
MaxAggRows == 8

(***************************************************************************)
(* The tagged "parameters" cell.  Learning rates and the other             *)
(* hyperparameter values are kept as their labels.                         *)
(***************************************************************************)
DATA_PATHS == <<"fridgeObjects", "fridgeObjectsWatermark">>
REPS == 3
LEARNING_RATES == <<"1e-3", "1e-4", "1e-5">>
IM_SIZES == <<"300", "500">>
EPOCHS == <<"16">>
DROPOUTS == <<"0">>

Range(s) == {s[k] : k \in DOMAIN s}

(***************************************************************************)
(* Exact rationals [n, d] with d > 0, kept in lowest terms.                *)
(***************************************************************************)
RECURSIVE GCD(_, _)
GCD(a, b) == IF b = 0 THEN a ELSE GCD(b, a % b)

Rat(n, d) == LET g == GCD(n, d) IN [n |-> n \div g, d |-> d \div g]

RAdd(a, b) == Rat(a.n * b.d + b.n * a.d, a.d * b.d)

RDivInt(a, k) == Rat(a.n, a.d * k)

RLeq(a, b) == a.n * b.d <= b.n * a.d

RECURSIVE RSum(_)
RSum(s) == IF s = <<>> THEN Rat(0, 1) ELSE RAdd(Head(s), RSum(Tail(s)))

(***************************************************************************)
(* np.median(ranks): the middle element of the sorted ranks, or the mean   *)
(* of the two middle elements for an even number of ranks.                 *)
(***************************************************************************)
RECURSIVE Insert(_, _)
Insert(x, s) ==
    IF s = <<>> THEN <<x>>
    ELSE IF x <= Head(s) THEN <<x>> \o s
    ELSE <<Head(s)>> \o Insert(x, Tail(s))

RECURSIVE Sorted(_)
Sorted(s) == IF s = <<>> THEN <<>> ELSE Insert(Head(s), Sorted(Tail(s)))

np_median(ranks) ==
    LET a == Sorted(ranks)
        n == Len(a)
    IN IF n % 2 = 1 THEN Rat(a[(n + 1) \div 2], 1)
       ELSE Rat(a[n \div 2] + a[n \div 2 + 1], 2)

\* positive_image_ranks(comparative_sets): the rank of the positive example
\* of each comparative set, in the order of the sets
positive_image_ranks(comparative_sets) ==
    [k \in DOMAIN comparative_sets |-> comparative_sets[k].pos_rank]

\* comparative_set_builder(data.valid_ds, num_sets, num_negatives) followed by
\* cs.compute_distances(valid_features) for each set: the learner's features
\* decide where the positive example ranks in each set
comparative_set_builder(learn) ==
    [k \in DOMAIN learn.ranks |-> [query |-> k, pos_rank |-> learn.ranks[k]]]

\* a plausible slip: the upper middle element instead of the median
retrieval_rank_UpperMiddle(learn) ==
    LET a == Sorted(positive_image_ranks(comparative_set_builder(learn)))
    IN Rat(a[Len(a) \div 2 + 1], 1)

retrieval_rank(learn) ==
    LET comparative_sets == comparative_set_builder(learn)
        ranks == positive_image_ranks(comparative_sets)
        median_rank == np_median(ranks)
    IN median_rank


(***************************************************************************)
(* ParameterSweeper: the parameters (an ordered dict of value lists) and   *)
(* the grid of their permutations.                                         *)
(***************************************************************************)
ParamNames ==
    <<"learning_rate", "epochs", "batch_size", "im_size", "architecture",
      "transform", "dropout", "weight_decay", "training_schedule",
      "discriminative_lr", "one_cycle_policy">>

\* the value lists sweeper.parameters shows after construction
DefaultParameters ==
    << <<"0.0001">>, <<"15">>, <<"16">>, <<"299">>, <<"resnet18">>,
       <<"True">>, <<"0.5">>, <<"0.01">>, <<"head_first_then_body">>,
       <<"False">>, <<"True">> >>

\* every way of taking one value from each list, the last list varying
\* fastest
RECURSIVE Product(_)
Product(lists) ==
    IF lists = <<>> THEN << <<>> >>
    ELSE LET rest == Product(Tail(lists))
             hd == Head(lists)
         IN [k \in 1..(Len(hd) * Len(rest)) |->
                <<hd[((k - 1) \div Len(rest)) + 1]>>
                    \o rest[((k - 1) % Len(rest)) + 1]]

ParameterSweeper(name) ==
    [created |-> TRUE, updated |-> FALSE, metric_name |-> name,
     parameters |-> DefaultParameters,
     permutations |-> Product(DefaultParameters)]

\* sweeper.update_parameters(**kwargs): the named lists replace the stored
\* ones and the grid is rebuilt
update_parameters(sw, kwargs) ==
    LET ps == [k \in DOMAIN ParamNames |->
                  IF ParamNames[k] \in DOMAIN kwargs
                  THEN kwargs[ParamNames[k]] ELSE sw.parameters[k]]
    IN [sw EXCEPT !.updated = TRUE, !.parameters = ps,
                  !.permutations = Product(ps)]

(***************************************************************************)
(* The state: the kernel's position in the notebook, its names, and the    *)
(* locals of the running sweep.                                            *)
(***************************************************************************)
VARIABLES
    pc,          \* index of the next statement of Program
    kernel,      \* "ok", or the exception that ended the execution
    ns,          \* the names set by the parameters cell
    metric_defined, \* retrieval_rank has been defined
    sweeper,     \* the ParameterSweeper object
    call,        \* the arguments of the running sweeper.run
    loop,        \* [rep, i, d]: repetition, permutation and dataset indices
    phase,       \* where sweeper.run is
    learn,       \* the learner of the current triple
    metric,      \* the value metric_fct returned for the current triple
    res,         \* the rows recorded so far
    df,          \* the notebook's results table
    out_mean12,  \* what df.mean(level=(1,2)) displayed
    ax,          \* the per-dataset bar plot's data
    out_mean1,   \* what df.mean(level=(1)) displayed
    plotted,     \* the data plot_sweeper_df drew
    scraps,      \* what sb.glue preserved
    active,      \* the triples being trained or evaluated
    hist,        \* how many trainings started / returned, metrics returned
    seed         \* decides the outcome of every training

vars ==
    <<pc, kernel, ns, metric_defined, sweeper, call, loop, phase, learn,
      metric, res, df, out_mean12, ax, out_mean1, plotted, scraps, active,
      hist, seed>>

sweepVars == <<call, loop, phase, learn, metric, res, active, hist>>

outVars == <<out_mean12, ax, out_mean1, plotted, scraps>>

NoLearner == [trained |-> FALSE]

NoMetric == [n |-> 0, d |-> 1]

NoCall == [made |-> FALSE]

\* a plausible slip: the sweep is run before its parameters are updated
Program_RunBeforeUpdate ==
    <<"parameters", "define_metric", "create_sweeper", "run",
      "update_parameters", "clean", "mean12", "plot12", "mean1", "plot1",
      "glue">>

\* the statements of the notebook's code cells, top to bottom
Program ==
    <<"parameters", "define_metric", "create_sweeper", "update_parameters",
      "run", "clean", "mean12", "plot12", "mean1", "plot1", "glue">>

IndexOf(stmt) == CHOOSE k \in DOMAIN Program : Program[k] = stmt

At(stmt) == kernel = "ok" /\ pc \in DOMAIN Program /\ Program[pc] = stmt

Prefixes(s) == {SubSeq(s, 1, k) : k \in 1..Len(s)}

\* the values the tagged parameters cell can leave: the notebook's own, or
\* shorter lists and fewer repetitions injected by the caller
NsChoices ==
    {[assigned |-> TRUE, DATA_PATHS |-> dp, REPS |-> r, LEARNING_RATES |-> lr,
      IM_SIZES |-> im, EPOCHS |-> EPOCHS, DROPOUTS |-> DROPOUTS] :
        dp \in Prefixes(DATA_PATHS), r \in 1..REPS,
        lr \in Prefixes(LEARNING_RATES), im \in Prefixes(IM_SIZES)}

NotebookNs ==
    [assigned |-> TRUE, DATA_PATHS |-> DATA_PATHS, REPS |-> REPS,
     LEARNING_RATES |-> LEARNING_RATES, IM_SIZES |-> IM_SIZES,
     EPOCHS |-> EPOCHS, DROPOUTS |-> DROPOUTS]

Init ==
    /\ pc = 1
    /\ kernel = "ok"
    /\ ns = [assigned |-> FALSE]
    /\ metric_defined = FALSE
    /\ sweeper = [created |-> FALSE, updated |-> FALSE]
    /\ call = NoCall
    /\ loop = [rep |-> 0, i |-> 1, d |-> 1]
    /\ phase = "not_started"
    /\ learn = NoLearner
    /\ metric = NoMetric
    /\ res = <<>>
    /\ df = [assigned |-> FALSE, rows |-> <<>>]
    /\ out_mean12 = <<>>
    /\ ax = <<>>
    /\ out_mean1 = <<>>
    /\ plotted = <<>>
    /\ scraps = [glued |-> FALSE]
    /\ active = {}
    /\ hist = [started |-> 0, trained |-> 0, evaluated |-> 0]
    /\ seed \in 0..MaxSeed

ParametersCell ==
    /\ At("parameters")
    /\ ns' \in NsChoices
    /\ pc' = pc + 1
    /\ UNCHANGED <<kernel, metric_defined, sweeper, df, seed>>
    /\ UNCHANGED sweepVars
    /\ UNCHANGED outVars

DefineMetricCell ==
    /\ At("define_metric")
    /\ metric_defined' = TRUE
    /\ pc' = pc + 1
    /\ UNCHANGED <<kernel, ns, sweeper, df, seed>>
    /\ UNCHANGED sweepVars
    /\ UNCHANGED outVars

CreateSweeperCell ==
    /\ At("create_sweeper")
    /\ sweeper' = ParameterSweeper("rank")
    /\ pc' = pc + 1
    /\ UNCHANGED <<kernel, ns, metric_defined, df, seed>>
    /\ UNCHANGED sweepVars
    /\ UNCHANGED outVars

\* a plausible slip: im_size left out of the call
UpdateArgs_NoImSize ==
    [learning_rate |-> ns.LEARNING_RATES, epochs |-> ns.EPOCHS,
     dropout |-> ns.DROPOUTS]

UpdateArgs ==
    [learning_rate |-> ns.LEARNING_RATES, im_size |-> ns.IM_SIZES,
     epochs |-> ns.EPOCHS, dropout |-> ns.DROPOUTS]

UpdateParameters ==
    /\ At("update_parameters")
    /\ sweeper' = update_parameters(sweeper, UpdateArgs)
    /\ pc' = pc + 1
    /\ UNCHANGED <<kernel, ns, metric_defined, df, seed>>
    /\ UNCHANGED sweepVars
    /\ UNCHANGED outVars

(***************************************************************************)
(* sweeper.run(datasets, reps, metric_fct): for each repetition, each      *)
(* permutation and each dataset, train a learner, evaluate metric_fct on   *)
(* it and record the result; the table is returned at the end.             *)
(***************************************************************************)
\* a plausible slip: only the first dataset is passed
RunArgs_FirstDataset ==
    [made |-> TRUE, datasets |-> SubSeq(ns.DATA_PATHS, 1, 1),
     reps |-> ns.REPS, metric_fct |-> "retrieval_rank"]

RunArgs ==
    [made |-> TRUE, datasets |-> ns.DATA_PATHS, reps |-> ns.REPS,
     metric_fct |-> "retrieval_rank"]

CurTriple ==
    <<loop.rep, sweeper.permutations[loop.i], call.datasets[loop.d]>>

Advance(l) ==
    IF l.d < Len(call.datasets) THEN [l EXCEPT !.d = l.d + 1]
    ELSE IF l.i < Len(sweeper.permutations)
         THEN [l EXCEPT !.i = l.i + 1, !.d = 1]
         ELSE [rep |-> l.rep + 1, i |-> 1, d |-> 1]

\* the positive example's rank in each comparative set, as the training of
\* this triple under this seed leaves it
TrainedRanks(s, l) ==
    [k \in 1..MaxSets |->
        LET h == 37 * s + 11 * l.rep + 5 * l.i + 3 * l.d + 7 * k
        IN 1 + (((h * h) \div 7) % MaxRank)]

RunCall ==
    /\ At("run")
    /\ phase = "not_started"
    /\ metric_defined
    /\ call' = RunArgs
    /\ loop' = [rep |-> 0, i |-> 1, d |-> 1]
    /\ res' = <<>>
    /\ phase' = "idle"
    /\ UNCHANGED <<pc, kernel, ns, metric_defined, sweeper, learn, metric,
                   df, active, hist, seed>>
    /\ UNCHANGED outVars

TrainStart ==
    /\ At("run")
    /\ phase = "idle"
    /\ loop.rep < call.reps
    /\ phase' = "training"
    /\ active' = active \cup {CurTriple}
    /\ hist' = [hist EXCEPT !.started = hist.started + 1]
    /\ UNCHANGED <<pc, kernel, ns, metric_defined, sweeper, call, loop,
                   learn, metric, res, df, seed>>
    /\ UNCHANGED outVars

\* a plausible slip: the metric is left to run in the background and the
\* loop moves on to the next triple
TrainReturn_Async ==
    /\ At("run")
    /\ phase = "training"
    /\ learn' = NoLearner
    /\ loop' = Advance(loop)
    /\ phase' = "idle"
    /\ hist' = [hist EXCEPT !.trained = hist.trained + 1]
    /\ UNCHANGED <<pc, kernel, ns, metric_defined, sweeper, call, metric,
                   res, df, active, seed>>
    /\ UNCHANGED outVars

TrainReturn ==
    /\ At("run")
    /\ phase = "training"
    /\ learn' = [trained |-> TRUE, triple |-> CurTriple,
                 ranks |-> TrainedRanks(seed, loop)]
    /\ phase' = "evaluating"
    /\ hist' = [hist EXCEPT !.trained = hist.trained + 1]
    /\ UNCHANGED <<pc, kernel, ns, metric_defined, sweeper, call, loop,
                   metric, res, df, active, seed>>
    /\ UNCHANGED outVars

MetricReturn ==
    /\ At("run")
    /\ phase = "evaluating"
    /\ call.metric_fct = "retrieval_rank"
    /\ metric' = retrieval_rank(learn)
    /\ phase' = "evaluated"
    /\ active' = active \ {learn.triple}
    /\ hist' = [hist EXCEPT !.evaluated = hist.evaluated + 1]
    /\ UNCHANGED <<pc, kernel, ns, metric_defined, sweeper, call, loop,
                   learn, res, df, seed>>
    /\ UNCHANGED outVars

Record ==
    /\ At("run")
    /\ phase = "evaluated"
    /\ res' = Append(res, [key |-> CurTriple, rank |-> metric])
    /\ learn' = NoLearner
    /\ metric' = NoMetric
    /\ loop' = Advance(loop)
    /\ phase' = "idle"
    /\ UNCHANGED <<pc, kernel, ns, metric_defined, sweeper, call, df,
                   active, hist, seed>>
    /\ UNCHANGED outVars

RunReturn ==
    /\ At("run")
    /\ phase = "idle"
    /\ loop.rep >= call.reps
    /\ df' = [assigned |-> TRUE, rows |-> res]
    /\ phase' = "returned"
    /\ pc' = pc + 1
    /\ UNCHANGED <<kernel, ns, metric_defined, sweeper, call, loop, learn,
                   metric, res, active, hist, seed>>
    /\ UNCHANGED outVars

\* what a handler returning the rows recorded so far would do
Interrupt_PartialTable ==
    /\ At("run")
    /\ phase \in {"training", "evaluating"}
    /\ df' = [assigned |-> TRUE, rows |-> res]
    /\ kernel' = "KeyboardInterrupt"
    /\ phase' = "aborted"
    /\ active' = {}
    /\ learn' = NoLearner
    /\ UNCHANGED <<pc, ns, metric_defined, sweeper, call, loop, metric, res,
                   hist, seed>>
    /\ UNCHANGED outVars

\* a KeyboardInterrupt raised while the learner is trained (or the metric
\* evaluated) leaves sweeper.run and the cell: the assignment to df never
\* happens and no later statement runs
Interrupt ==
    /\ At("run")
    /\ phase \in {"training", "evaluating"}
    /\ kernel' = "KeyboardInterrupt"
    /\ phase' = "aborted"
    /\ active' = {}
    /\ learn' = NoLearner
    /\ UNCHANGED <<pc, ns, metric_defined, sweeper, call, loop, metric, res,
                   df, hist, seed>>
    /\ UNCHANGED outVars

(***************************************************************************)
(* Post-processing of the results table.  A row is [key, rank] with        *)
(* key = <<run number, permutation, dataset>> (index levels 0, 1, 2).      *)
(***************************************************************************)
\* clean_sweeper_df(df): the permutation labels keep only the parameters
\* that take more than one value in the table
clean_sweeper_df(rows) ==
    LET Varies(j) == \E a, b \in DOMAIN rows :
                        rows[a].key[2][j] # rows[b].key[2][j]
        Kept(pr) == \E j \in DOMAIN ParamNames :
                        ParamNames[j] = pr[1] /\ Varies(j)
        Label(perm) ==
            SelectSeq([j \in DOMAIN ParamNames |-> <<ParamNames[j], perm[j]>>],
                      Kept)
    IN [k \in DOMAIN rows |->
           [rows[k] EXCEPT !.key = <<rows[k].key[1], Label(rows[k].key[2]),
                                     rows[k].key[3]>>]]

\* df.mean(level=levels): the rows are grouped by the named index levels
\* (groups in the order of their first row) and each group's ranks averaged
GroupMean(rows, levels) ==
    LET Proj(key) == [j \in DOMAIN levels |-> key[levels[j] + 1]]
        IsFirst(k) == \A m \in 1..(k - 1) :
                         Proj(rows[m].key) # Proj(rows[k].key)
        firsts == SelectSeq([k \in DOMAIN rows |-> k], IsFirst)
        Members(g) == LET In(r) == Proj(r.key) = g IN SelectSeq(rows, In)
        Mean(ms) == RDivInt(RSum([k \in DOMAIN ms |-> ms[k].rank]), Len(ms))
    IN [q \in DOMAIN firsts |->
           LET g == Proj(rows[firsts[q]].key)
           IN [key |-> g, rank |-> Mean(Members(g))]]

\* a plausible slip: the dataset level is left out
df_mean_level_1_2_DropsDataset == GroupMean(df.rows, <<1>>)

df_mean_level_1_2 == GroupMean(df.rows, <<1, 2>>)

\* a plausible slip: the levels of the previous cell are kept
df_mean_level_1_KeepsDataset == GroupMean(df.rows, <<1, 2>>)

df_mean_level_1 == GroupMean(df.rows, <<1>>)

\* ["rank"].unstack(): one line per permutation, one column per dataset
unstack(rows) ==
    LET IsFirst(k) == \A m \in 1..(k - 1) : rows[m].key[1] # rows[k].key[1]
        firsts == SelectSeq([k \in DOMAIN rows |-> k], IsFirst)
    IN [q \in DOMAIN firsts |->
           LET p == rows[firsts[q]].key[1]
               cols == {rows[k].key[2] : k \in {m \in DOMAIN rows :
                                                   rows[m].key[1] = p}}
           IN [key |-> p,
               by_dataset |-> [c \in cols |->
                   LET k == CHOOSE m \in DOMAIN rows :
                                rows[m].key = <<p, c>>
                   IN rows[k].rank]]]

\* plot_sweeper_df(df, sort_by="rank"): the rows in ascending order of rank
RECURSIVE InsertRow(_, _)
InsertRow(r, s) ==
    IF s = <<>> THEN <<r>>
    ELSE IF RLeq(Head(s).rank, r.rank) THEN <<Head(s)>> \o InsertRow(r, Tail(s))
    ELSE <<r>> \o s

RECURSIVE SortByRank(_)
SortByRank(s) ==
    IF s = <<>> THEN <<>>
    ELSE InsertRow(s[Len(s)], SortByRank(SubSeq(s, 1, Len(s) - 1)))

plot_sweeper_df(rows) == SortByRank(rows)

CleanCell ==
    /\ At("clean")
    /\ df.assigned
    /\ df' = [df EXCEPT !.rows = clean_sweeper_df(df.rows)]
    /\ pc' = pc + 1
    /\ UNCHANGED <<kernel, ns, metric_defined, sweeper, seed>>
    /\ UNCHANGED sweepVars
    /\ UNCHANGED outVars

Mean12Cell ==
    /\ At("mean12")
    /\ df.assigned
    /\ out_mean12' = df_mean_level_1_2
    /\ pc' = pc + 1
    /\ UNCHANGED <<kernel, ns, metric_defined, sweeper, df, seed, ax,
                   out_mean1, plotted, scraps>>
    /\ UNCHANGED sweepVars

Plot12Cell ==
    /\ At("plot12")
    /\ df.assigned
    /\ ax' = unstack(df_mean_level_1_2)
    /\ pc' = pc + 1
    /\ UNCHANGED <<kernel, ns, metric_defined, sweeper, df, seed, out_mean12,
                   out_mean1, plotted, scraps>>
    /\ UNCHANGED sweepVars

Mean1Cell ==
    /\ At("mean1")
    /\ df.assigned
    /\ out_mean1' = df_mean_level_1
    /\ pc' = pc + 1
    /\ UNCHANGED <<kernel, ns, metric_defined, sweeper, df, seed, out_mean12,
                   ax, plotted, scraps>>
    /\ UNCHANGED sweepVars

Plot1Cell ==
    /\ At("plot1")
    /\ df.assigned
    /\ plotted' = plot_sweeper_df(df_mean_level_1)
    /\ pc' = pc + 1
    /\ UNCHANGED <<kernel, ns, metric_defined, sweeper, df, seed, out_mean12,
                   ax, out_mean1, scraps>>
    /\ UNCHANGED sweepVars

GlueCell ==
    /\ At("glue")
    /\ df.assigned
    /\ scraps' = [glued |-> TRUE, nr_elements |-> Len(df.rows),
                  ranks |-> LET m == df_mean_level_1
                            IN [k \in DOMAIN m |-> m[k].rank]]
    /\ pc' = pc + 1
    /\ UNCHANGED <<kernel, ns, metric_defined, sweeper, df, seed, out_mean12,
                   ax, out_mean1, plotted>>
    /\ UNCHANGED sweepVars

Next ==
    \/ ParametersCell
    \/ DefineMetricCell
    \/ CreateSweeperCell
    \/ UpdateParameters
    \/ RunCall
    \/ TrainStart
    \/ TrainReturn
    \/ MetricReturn
    \/ Record
    \/ RunReturn
    \/ Interrupt
    \/ CleanCell
    \/ Mean12Cell
    \/ Plot12Cell
    \/ Mean1Cell
    \/ Plot1Cell
    \/ GlueCell

Spec == Init /\ [][Next]_vars

(***************************************************************************)
(* retrieval_rank on its own: the sweep is evaluating the metric on a      *)
(* learner whose comparative sets can rank the positive example anywhere.  *)
(***************************************************************************)
RankLists == UNION {[1..n -> 1..MaxRank] : n \in 1..MaxSets}

InitMedian ==
    /\ pc = IndexOf("run")
    /\ kernel = "ok"
    /\ ns = NotebookNs
    /\ metric_defined = TRUE
    /\ sweeper = update_parameters(ParameterSweeper("rank"), UpdateArgs)
    /\ call = RunArgs
    /\ loop = [rep |-> 0, i |-> 1, d |-> 1]
    /\ phase = "evaluating"
    /\ \E rs \in RankLists :
          learn = [trained |-> TRUE, triple |-> CurTriple, ranks |-> rs]
    /\ metric = NoMetric
    /\ res = <<>>
    /\ df = [assigned |-> FALSE, rows |-> <<>>]
    /\ out_mean12 = <<>>
    /\ ax = <<>>
    /\ out_mean1 = <<>>
    /\ plotted = <<>>
    /\ scraps = [glued |-> FALSE]
    /\ active = {CurTriple}
    /\ hist = [started |-> 1, trained |-> 1, evaluated |-> 0]
    /\ seed = 0

NextMedian == MetricReturn \/ Record

SpecMedian == InitMedian /\ [][NextMedian]_vars

(***************************************************************************)
(* The post-processing cells on their own: sweeper.run has returned a      *)
(* table with one row per triple, whose ranks can be anything.             *)
(***************************************************************************)
AggValues == {Rat(1, 1), Rat(5, 2)}

NumRows(c) ==
    c.REPS * Len(c.LEARNING_RATES) * Len(c.IM_SIZES) * Len(c.DATA_PATHS)

\* the keys in the order the sweep records them
SweepKeys ==
    LET P == Len(sweeper.permutations)
        D == Len(call.datasets)
    IN [k \in 1..(call.reps * P * D) |->
           <<(k - 1) \div (P * D),
             sweeper.permutations[(((k - 1) \div D) % P) + 1],
             call.datasets[((k - 1) % D) + 1]>>]

\* the table the sweep returns under seed s
SeededRows(s) ==
    LET P == Len(sweeper.permutations)
        D == Len(call.datasets)
    IN [k \in DOMAIN SweepKeys |->
           LET l == [rep |-> (k - 1) \div (P * D),
                     i |-> (((k - 1) \div D) % P) + 1,
                     d |-> ((k - 1) % D) + 1]
           IN [key |-> SweepKeys[k],
               rank |-> retrieval_rank([trained |-> TRUE,
                                        triple |-> SweepKeys[k],
                                        ranks |-> TrainedRanks(s, l)])]]

InitAgg ==
    /\ pc = IndexOf("clean")
    /\ kernel = "ok"
    /\ ns \in {c \in NsChoices : NumRows(c) <= MaxAggRows} \cup {NotebookNs}
    /\ metric_defined = TRUE
    /\ sweeper = update_parameters(ParameterSweeper("rank"), UpdateArgs)
    /\ call = RunArgs
    /\ loop = [rep |-> call.reps, i |-> 1, d |-> 1]
    /\ phase = "returned"
    /\ learn = NoLearner
    /\ metric = NoMetric
    /\ seed \in 0..MaxSeed
    /\ \/ res = SeededRows(seed)
       \/ /\ NumRows(ns) <= MaxAggRows
          /\ \E f \in [DOMAIN SweepKeys -> AggValues] :
                res = [k \in DOMAIN SweepKeys |->
                          [key |-> SweepKeys[k], rank |-> f[k]]]
    /\ df = [assigned |-> TRUE, rows |-> res]
    /\ out_mean12 = <<>>
    /\ ax = <<>>
    /\ out_mean1 = <<>>
    /\ plotted = <<>>
    /\ scraps = [glued |-> FALSE]
    /\ active = {}
    /\ hist = [started |-> Len(res), trained |-> Len(res),
               evaluated |-> Len(res)]

NextAgg ==
    \/ CleanCell
    \/ Mean12Cell
    \/ Plot12Cell
    \/ Mean1Cell
    \/ Plot1Cell
    \/ GlueCell

SpecAgg == InitAgg /\ [][NextAgg]_vars

(***************************************************************************)
(* Properties of the sweep.                                                *)
(***************************************************************************)
\* sweeper.run has just returned and df holds its table as returned
JustReturned == kernel = "ok" /\ phase = "returned" /\ At("clean")

RowsWithKey(rows, key) == {k \in DOMAIN rows : rows[k].key = key}

RECURSIVE ProdLen(_)
ProdLen(lists) ==
    IF lists = <<>> THEN 1 ELSE Len(Head(lists)) * ProdLen(Tail(lists))

\* the value lists the notebook asks the sweeper to use: its four lists, and
\* the defaults for the other parameters
NotebookLists ==
    [k \in DOMAIN ParamNames |->
        CASE ParamNames[k] = "learning_rate" -> ns.LEARNING_RATES
          [] ParamNames[k] = "im_size" -> ns.IM_SIZES
          [] ParamNames[k] = "epochs" -> ns.EPOCHS
          [] ParamNames[k] = "dropout" -> ns.DROPOUTS
          [] OTHER -> DefaultParameters[k]]

\* C1: when sweeper.run(datasets, reps, metric_fct) completes, the table
\* holds exactly one row for every (repetition, permutation, dataset) with
\* repetition in 0..reps-1, permutation in the grid and dataset in the
\* dataset list, and no other row; with the notebook's values the glued
\* nr_elements = len(df) is 36.
C1_OneRowPerTriple ==
    /\ JustReturned =>
          /\ Len(df.rows) =
                ns.REPS * Len(sweeper.permutations) * Len(ns.DATA_PATHS)
          /\ \A r \in 0..(ns.REPS - 1) :
             \A p \in Range(sweeper.permutations) :
             \A d \in Range(ns.DATA_PATHS) :
                Cardinality(RowsWithKey(df.rows, <<r, p, d>>)) = 1
          /\ \A k \in DOMAIN df.rows :
                /\ df.rows[k].key[1] \in 0..(ns.REPS - 1)
                /\ df.rows[k].key[2] \in Range(sweeper.permutations)
                /\ df.rows[k].key[3] \in Range(ns.DATA_PATHS)
    /\ scraps.glued =>
          /\ scraps.nr_elements =
                ns.REPS * ProdLen(NotebookLists) * Len(ns.DATA_PATHS)
          /\ ns = NotebookNs => scraps.nr_elements = 36

C1_Witness ==
    scraps.glued /\ ns = NotebookNs /\ scraps.nr_elements = 36

\* C6: the grid swept by sweeper.run is the full Cartesian product of the
\* value lists of all parameters: as many permutations as the product of the
\* list lengths, each taking one value from every list, every combination
\* present and no two equal; with the notebook's lists that is 6
\* permutations, each run REPS = 3 times on every dataset.
C6_FullGrid ==
    /\ (kernel = "ok" /\ phase # "not_started") =>
          LET perms == sweeper.permutations
          IN /\ Len(perms) = ProdLen(NotebookLists)
             /\ \A k \in DOMAIN perms :
                   /\ Len(perms[k]) = Len(ParamNames)
                   /\ \A j \in DOMAIN ParamNames :
                         perms[k][j] \in Range(NotebookLists[j])
             /\ \A k, m \in DOMAIN perms : k # m => perms[k] # perms[m]
             /\ \A lr \in Range(ns.LEARNING_RATES) :
                \A im \in Range(ns.IM_SIZES) :
                   \E k \in DOMAIN perms : perms[k][1] = lr /\ perms[k][4] = im
             /\ ns = NotebookNs => Len(perms) = 6
    /\ JustReturned =>
          \A p \in Range(sweeper.permutations) :
          \A d \in Range(call.datasets) :
             Cardinality({k \in DOMAIN df.rows :
                             /\ df.rows[k].key[2] = p
                             /\ df.rows[k].key[3] = d}) = ns.REPS

C6_Witness ==
    /\ JustReturned
    /\ ns = NotebookNs
    /\ Len(sweeper.permutations) = 6
    /\ Len(LEARNING_RATES) * Len(IM_SIZES) = 6

PostCells == {"clean", "mean12", "plot12", "mean1", "plot1", "glue"}

NumTriples == call.reps * Len(sweeper.permutations) * Len(call.datasets)

\* C2: the steps happen in a fixed order: the datasets are loaded and the
\* grid is built before any training starts; the metric function is evaluated
\* on a model only after that model's training has finished, and its result
\* is recorded only after the evaluation has returned; post-processing starts
\* only after every triple has been recorded.
C2_FixedOrder ==
    /\ [][hist'.started > hist.started =>
            /\ ns.assigned
            /\ sweeper.updated
            /\ Len(sweeper.permutations) = ProdLen(NotebookLists)]_vars
    /\ [][hist'.evaluated > hist.evaluated =>
            /\ learn.trained
            /\ learn.triple = CurTriple
            /\ hist.trained = hist.evaluated + 1]_vars
    /\ [][Len(res') > Len(res) =>
            /\ phase = "evaluated"
            /\ hist.evaluated = Len(res) + 1
            /\ res' = Append(res, [key |-> CurTriple, rank |-> metric])]_vars
    /\ [][(pc' # pc /\ pc \in DOMAIN Program /\ Program[pc] \in PostCells) =>
            /\ df.assigned
            /\ call.made
            /\ Len(res) = NumTriples
            /\ hist.evaluated = NumTriples
            /\ \A r \in 0..(ns.REPS - 1) :
               \A p \in Range(sweeper.permutations) :
               \A d \in Range(ns.DATA_PATHS) :
                  RowsWithKey(res, <<r, p, d>>) # {}]_vars

C2_Witness ==
    scraps.glued /\ ns = NotebookNs /\ hist.evaluated = 36 /\ Len(res) = 36

\* C4: a KeyboardInterrupt raised while a model is being trained inside
\* sweeper.run is not handled: the sweep ends at that point, nothing further
\* is trained or evaluated, sweeper.run returns no table and df is not
\* assigned.
C4_InterruptEndsSweep ==
    /\ [](kernel = "KeyboardInterrupt" =>
            /\ ~df.assigned
            /\ phase = "aborted"
            /\ active = {}
            /\ At("run") = FALSE
            /\ Program[pc] = "run")
    /\ [][(phase = "training" /\ kernel' = "KeyboardInterrupt") =>
            /\ hist' = hist
            /\ res' = res
            /\ df' = df
            /\ pc' = pc]_vars
    /\ [][kernel = "KeyboardInterrupt" => FALSE]_vars

C4_Witness ==
    /\ kernel = "KeyboardInterrupt"
    /\ hist.started > hist.trained
    /\ Len(res) > 0
    /\ Len(res) < NumTriples
    /\ ~df.assigned

\* C5: execution is synchronous: at most one triple is being trained or
\* evaluated at any time, and the next triple starts only after the previous
\* triple's training and metric evaluation have both returned.
C5_OneAtATime ==
    /\ [](/\ Cardinality(active) <= 1
          /\ active # {} =>
                /\ phase \in {"training", "evaluating"}
                /\ active = {CurTriple})
    /\ [][hist'.started > hist.started =>
            /\ hist'.started = hist.started + 1
            /\ hist.trained = hist.started
            /\ hist.evaluated = hist.started
            /\ Len(res) = hist.started
            /\ active = {}]_vars

C5_Witness ==
    /\ phase = "evaluating"
    /\ Cardinality(active) = 1
    /\ hist.started = 36
    /\ hist.evaluated = 35

(***************************************************************************)
(* Properties of the metric.                                               *)
(***************************************************************************)
CountLess(s, v) == Cardinality({k \in DOMAIN s : s[k] < v})

CountLeq(s, v) == Cardinality({k \in DOMAIN s : s[k] <= v})

\* the j-th smallest element of s, found by counting
OrderStat(s, j) ==
    CHOOSE v \in Range(s) : CountLess(s, v) < j /\ j <= CountLeq(s, v)

RefMedian(s) ==
    LET n == Len(s)
    IN IF n % 2 = 1 THEN [n |-> OrderStat(s, (n + 1) \div 2), d |-> 1]
       ELSE LET t == OrderStat(s, n \div 2) + OrderStat(s, n \div 2 + 1)
            IN IF t % 2 = 0 THEN [n |-> t \div 2, d |-> 1]
               ELSE [n |-> t, d |-> 2]

\* C3: retrieval_rank(learn) returns the median of the ranks of the positive
\* example over all comparative sets, one rank per set: the middle rank for
\* an odd number of sets, the mean of the two middle ranks for an even
\* number; at least half of the ranks lie on either side of it.
C3_MedianRank ==
    phase = "evaluated" =>
        LET rs == learn.ranks
            n == Len(rs)
        IN /\ Len(positive_image_ranks(comparative_set_builder(learn))) = n
           /\ metric = RefMedian(rs)
           /\ 2 * Cardinality({k \in DOMAIN rs : rs[k] * metric.d <= metric.n})
                 >= n
           /\ 2 * Cardinality({k \in DOMAIN rs : rs[k] * metric.d >= metric.n})
                 >= n

C3_Witness ==
    /\ phase = "evaluated"
    /\ Len(learn.ranks) = 4
    /\ learn.ranks = <<3, 1, 2, 1>>
    /\ metric = [n |-> 3, d |-> 2]

(***************************************************************************)
(* Properties of the aggregation.                                          *)
(***************************************************************************)
PermsOf(rows) == {rows[k].key[2] : k \in DOMAIN rows}

DatasetsOf(rows) == {rows[k].key[3] : k \in DOMAIN rows}

RankAt(rows, key) == rows[CHOOSE k \in DOMAIN rows : rows[k].key = key].rank

\* the sum of the ranks of the rows (r, p, d) for r = 0 .. upto
RECURSIVE SumOverRuns(_, _, _, _)
SumOverRuns(rows, p, d, upto) ==
    IF upto < 0 THEN [n |-> 0, d |-> 1]
    ELSE RAdd(RankAt(rows, <<upto, p, d>>), SumOverRuns(rows, p, d, upto - 1))

\* a is the mean of k values whose sum is total
IsMean(a, total, k) == a.n * total.d * k = total.n * a.d

\* C7: index level 0 is the run number, level 1 the permutation and level 2
\* the dataset, and df.mean(level=(1,2)) averages across the run numbers
\* only: exactly one row per (permutation, dataset) pair, whose rank is the
\* arithmetic mean of the ranks of that pair's rows of all repetitions.
C7_MeanOverRuns ==
    (out_mean12 # <<>>) =>
        LET rows == df.rows
            out == out_mean12
        IN /\ Len(out) = Len(sweeper.permutations) * Len(call.datasets)
           /\ Cardinality(PermsOf(rows)) = Len(sweeper.permutations)
           /\ \A k \in DOMAIN rows :
                 /\ rows[k].key[1] \in 0..(call.reps - 1)
                 /\ rows[k].key[3] \in Range(call.datasets)
           /\ \A p \in PermsOf(rows) : \A d \in DatasetsOf(rows) :
                 /\ Cardinality(RowsWithKey(out, <<p, d>>)) = 1
                 /\ Cardinality({k \in DOMAIN rows :
                        rows[k].key[2] = p /\ rows[k].key[3] = d}) = call.reps
                 /\ IsMean(RankAt(out, <<p, d>>),
                           SumOverRuns(rows, p, d, call.reps - 1), call.reps)

C7_Witness ==
    /\ out_mean12 # <<>>
    /\ call.reps = 2
    /\ Len(out_mean12) = 4
    /\ \E q \in DOMAIN out_mean12 : out_mean12[q].rank = [n |-> 7, d |-> 4]
    /\ \E q \in DOMAIN out_mean12 : out_mean12[q].rank = [n |-> 1, d |-> 1]

\* the sum of the per-(permutation, dataset) averages of p over the datasets
RECURSIVE SumOverDatasets(_, _, _)
SumOverDatasets(out12, p, ds) ==
    IF ds = <<>> THEN [n |-> 0, d |-> 1]
    ELSE RAdd(RankAt(out12, <<p, Head(ds)>>),
              SumOverDatasets(out12, p, Tail(ds)))

\* C8: df.mean(level=(1)) gives, for every permutation, the average of the
\* results of the different datasets: the mean over the datasets of the
\* averages of df.mean(level=(1,2)); it has exactly one row per permutation,
\* so the glued list 'ranks' has one entry per permutation (6 in the
\* notebook).
C8_MeanOverDatasets ==
    /\ (out_mean1 # <<>>) =>
          /\ Len(out_mean1) = Len(sweeper.permutations)
          /\ \A p \in PermsOf(df.rows) :
                /\ Cardinality(RowsWithKey(out_mean1, <<p>>)) = 1
                /\ IsMean(RankAt(out_mean1, <<p>>),
                          SumOverDatasets(out_mean12, p, call.datasets),
                          Len(call.datasets))
    /\ scraps.glued =>
          /\ Len(scraps.ranks) = Len(sweeper.permutations)
          /\ \A p \in PermsOf(df.rows) :
                \E q \in DOMAIN scraps.ranks :
                   IsMean(scraps.ranks[q],
                          SumOverDatasets(out_mean12, p, call.datasets),
                          Len(call.datasets))
          /\ ns = NotebookNs => Len(scraps.ranks) = 6

C8_Witness ==
    /\ scraps.glued
    /\ ns = NotebookNs
    /\ Len(scraps.ranks) = 6
    /\ \E q, r \in DOMAIN scraps.ranks : scraps.ranks[q] # scraps.ranks[r]
    /\ \E p \in PermsOf(df.rows) :
          RankAt(out_mean12, <<p, DATA_PATHS[1]>>)
             # RankAt(out_mean12, <<p, DATA_PATHS[2]>>)

=============================================================================
